---- MODULE Spec2Model ----
(***************************************************************************)
(* Model of src/tuple.py: the built-in tuple operations the file exercises *)
(* (count, index, +, *, unpacking, slicing, equality, hashing, use as a    *)
(* dictionary key), run as statements of an interpreter session over a     *)
(* heap of tuple objects.                                                  *)
(*                                                                         *)
(* Positions are 0-based as in the source; TLA+ sequences are 1-based, so  *)
(* position p of a tuple t is t[p + 1].                                    *)
(***************************************************************************)
EXTENDS Integers, Sequences, FiniteSets, TLC

VARIABLES heap, made, last, bind, data

vars == <<heap, made, last, bind, data>>

(***************************************************************************)
(* Bounds of the model.                                                    *)
(***************************************************************************)
MaxArity == 2       \* arity of the tuples a single statement is given
MaxRep == 2         \* largest replication factor
SessObjs == 3       \* tuple objects alive in a session
SessArity == 1      \* arity of a tuple written as a literal in a session
SessLen == 2        \* arity of a tuple built by + or * in a session
MaxKeys == 1        \* entries of the dictionary

(***************************************************************************)
(* Values.  The source mixes int, float and str in one tuple               *)
(* (1, "hello", 3.14).  A float is held in hundredths (1.0 is 100), a str  *)
(* as its code points; the values are 1, 1.0 and "hi".                     *)
(***************************************************************************)
PyInt(k) == [t |-> "int", n |-> k, s |-> <<>>]
PyFloat(c) == [t |-> "float", n |-> c, s |-> <<>>]
PyStr(cs) == [t |-> "str", n |-> 0, s |-> cs]

Vals == {PyInt(1), PyFloat(100), PyStr(<<104, 105>>)}

NoVal == PyInt(0)

\* the numeric value of an int or float, in hundredths
Centi(x) == IF x.t = "int" THEN 100 * x.n ELSE x.n

\* x == y on values, as the tuple methods apply it: identity first, then
\* the types' ==  (int and float compare by numeric value)
ValEq(x, y) ==
    \/ x = y
    \/ /\ x.t = "str"
       /\ y.t = "str"
       /\ x.s = y.s
    \/ /\ x.t # "str"
       /\ y.t # "str"
       /\ Centi(x) = Centi(y)

\* all tuples of arity at most k over the values
TuplesUpTo(k) == UNION {[1..m -> Vals] : m \in 0..k}

(***************************************************************************)
(* tuple.count(value): walks the items and counts those equal to value.    *)
(***************************************************************************)
RECURSIVE CountFrom(_, _, _)
CountFrom(t, v, i) ==
    IF i > Len(t) THEN 0
    ELSE (IF ValEq(t[i], v) THEN 1 ELSE 0) + CountFrom(t, v, i + 1)

\* a count that takes only the very same value for an equal one
tuple_count_identity(t, v) == Len(SelectSeq(t, LAMBDA x : x = v))

tuple_count(t, v) == CountFrom(t, v, 1)

(***************************************************************************)
(* tuple.index(value): walks the items from position 0 and returns the     *)
(* position of the first one equal to value; ValueError when the walk ends.*)
(***************************************************************************)
RECURSIVE IndexFrom(_, _, _)
IndexFrom(t, v, i) ==
    IF i > Len(t) THEN [err |-> "ValueError", val |-> 0]
    ELSE IF ValEq(t[i], v) THEN [err |-> "none", val |-> i - 1]
    ELSE IndexFrom(t, v, i + 1)

\* an index that answers -1 instead of raising
tuple_index_sentinel(t, v) ==
    IF IndexFrom(t, v, 1).err = "none" THEN IndexFrom(t, v, 1)
    ELSE [err |-> "none", val |-> -1]

tuple_index(t, v) == IndexFrom(t, v, 1)

(***************************************************************************)
(* a + b: a tuple of size len(a) + len(b), a's items copied first.         *)
(***************************************************************************)
\* a concatenation one item short
tuple_concat_short(a, b) ==
    [i \in 1..(IF Len(b) > 0 THEN Len(a) + Len(b) - 1 ELSE Len(a)) |->
        IF i <= Len(a) THEN a[i] ELSE b[i - Len(a)]]

\* a concatenation with the operands the wrong way round
tuple_concat_swapped(a, b) ==
    [i \in 1..(Len(a) + Len(b)) |-> IF i <= Len(b) THEN b[i] ELSE a[i - Len(b)]]

tuple_concat(a, b) ==
    [i \in 1..(Len(a) + Len(b)) |-> IF i <= Len(a) THEN a[i] ELSE b[i - Len(a)]]

(***************************************************************************)
(* a * n: the empty tuple when n <= 0 or a is empty, else n copies of a's  *)
(* items laid end to end.                                                  *)
(***************************************************************************)
RECURSIVE RepeatCopies(_, _)
RepeatCopies(a, n) == IF n = 0 THEN <<>> ELSE a \o RepeatCopies(a, n - 1)

\* a replication that takes a factor of 0 for 1
tuple_repeat_extra(a, n) ==
    IF n < 0 \/ Len(a) = 0 THEN [err |-> "none", val |-> <<>>]
    ELSE [err |-> "none", val |-> RepeatCopies(a, IF n = 0 THEN 1 ELSE n)]

\* a replication that rejects a negative factor
tuple_repeat_strict(a, n) ==
    IF n < 0 THEN [err |-> "ValueError", val |-> <<>>]
    ELSE IF n = 0 \/ Len(a) = 0 THEN [err |-> "none", val |-> <<>>]
    ELSE [err |-> "none", val |-> RepeatCopies(a, n)]

tuple_repeat(a, n) ==
    IF n <= 0 \/ Len(a) = 0 THEN [err |-> "none", val |-> <<>>]
    ELSE [err |-> "none", val |-> RepeatCopies(a, n)]

(***************************************************************************)
(* t[start:stop]: each bound below 0 has len(t) added, and is then brought *)
(* into 0..len(t); the items from start up to stop are copied.             *)
(***************************************************************************)
\* bounds that are cut to the range without counting from the end
AdjustIndexNoWrap(i, length) ==
    IF i < 0 THEN 0 ELSE (IF i >= length THEN length ELSE i)

AdjustIndex(i, length) ==
    IF i < 0
    THEN (IF i + length < 0 THEN 0 ELSE i + length)
    ELSE (IF i >= length THEN length ELSE i)

tuple_slice(t, start, stop) ==
    LET lo == AdjustIndex(start, Len(t))
        hi == AdjustIndex(stop, Len(t))
    IN  IF lo >= hi THEN <<>>
        ELSE [i \in 1..(hi - lo) |-> t[lo + i]]

(***************************************************************************)
(* x, y, z = t with k targets: ValueError unless len(t) = k, else the      *)
(* items in order, one per target.                                         *)
(***************************************************************************)
\* an unpacking that binds what it can when the tuple is too long
unpack_sequence_lenient(t, k) ==
    IF Len(t) < k THEN [err |-> "ValueError", val |-> <<>>]
    ELSE [err |-> "none", val |-> [i \in 1..k |-> t[i]]]

unpack_sequence(t, k) ==
    IF Len(t) # k THEN [err |-> "ValueError", val |-> <<>>]
    ELSE [err |-> "none", val |-> [i \in 1..k |-> t[i]]]

(***************************************************************************)
(* a == b on tuples: the first position at which the items are not equal   *)
(* is looked for over the common length; when there is none the tuples are *)
(* equal exactly when their sizes are, otherwise they are not equal.       *)
(***************************************************************************)
RECURSIVE FirstDiff(_, _, _)
FirstDiff(a, b, i) ==
    IF i > Len(a) \/ i > Len(b) THEN i
    ELSE IF ~ValEq(a[i], b[i]) THEN i
    ELSE FirstDiff(a, b, i + 1)

tuple_eq(a, b) ==
    LET i == FirstDiff(a, b, 1)
    IN  IF i > Len(a) \/ i > Len(b) THEN Len(a) = Len(b) ELSE FALSE

(***************************************************************************)
(* hash().  Hash values are kept to HashBits bits (the interpreter's are   *)
(* 64 bits wide); every sum and product is reduced modulo 2^HashBits.      *)
(***************************************************************************)
HashBits == 15
HashMod == 2 ^ HashBits

RECURSIVE Xor(_, _)
Xor(x, y) ==
    IF x = 0 THEN y
    ELSE IF y = 0 THEN x
    ELSE (((x % 2) + (y % 2)) % 2) + 2 * Xor(x \div 2, y \div 2)

\* rotate the HashBits-bit word x left by r bits
Rotl(x, r) == ((x * (2 ^ r)) % HashMod) + (x \div (2 ^ (HashBits - r)))

\* hash of a number: its value reduced modulo the prime NumModulus, a
\* fraction p/q hashing to p * q^-1, so that equal numbers of different
\* types (1 and 1.0) hash alike
NumModulus == 8191
InvHundred == CHOOSE k \in 1..(NumModulus - 1) : (100 * k) % NumModulus = 1
\* a hash of the stored number, whatever its type
NumHashRaw(x) == x.n % NumModulus

NumHash(x) ==
    IF x.t = "int" THEN x.n % NumModulus
    ELSE ((x.n % NumModulus) * InvHundred) % NumModulus

\* hash of a str: a multiply-and-xor pass over its code points
StrMult == 16963
RECURSIVE StrHashFrom(_, _, _)
StrHashFrom(cs, i, x) ==
    IF i > Len(cs) THEN Xor(x, Len(cs))
    ELSE StrHashFrom(cs, i + 1, Xor((StrMult * x) % HashMod, cs[i]))

StrHash(cs) ==
    IF Len(cs) = 0 THEN 0 ELSE StrHashFrom(cs, 1, (cs[1] * 128) % HashMod)

ValHash(x) == IF x.t = "str" THEN StrHash(x.s) ELSE NumHash(x)

\* hash of a tuple: an accumulator is mixed with each item's hash in order,
\* then with the length
Prime1 == 31153
Prime2 == 19063
Prime5 == 26545
LenMix == 21363
RotBits == 6
RECURSIVE HashFrom(_, _, _)
HashFrom(t, i, acc) ==
    IF i > Len(t) THEN (acc + Xor(Len(t), Xor(Prime5, LenMix))) % HashMod
    ELSE HashFrom(t, i + 1,
             (Rotl((acc + ValHash(t[i]) * Prime2) % HashMod, RotBits) * Prime1)
                 % HashMod)

tuple_hash(t) == HashFrom(t, 1, Prime5)

(***************************************************************************)
(* The dictionary: its entries in insertion order, each the key's hash,    *)
(* the key object and the value.  A key is found at the first entry with   *)
(* the same hash whose key is the same object or an equal one.             *)
(***************************************************************************)
DictVals == {"Value", "Other"}

RECURSIVE LookupFrom(_, _, _, _, _)
LookupFrom(h, d, hk, k, i) ==
    IF i > Len(d) THEN 0
    ELSE IF d[i].hash = hk /\ (d[i].key = k \/ tuple_eq(h[d[i].key], h[k])) THEN i
    ELSE LookupFrom(h, d, hk, k, i + 1)

dict_lookup(h, d, k) == LookupFrom(h, d, tuple_hash(h[k]), k, 1)

\* d[k] = v
dict_setitem(h, d, k, v) ==
    LET i == dict_lookup(h, d, k)
    IN  IF i > 0 THEN [d EXCEPT ![i].value = v]
        ELSE Append(d, [hash |-> tuple_hash(h[k]), key |-> k, value |-> v])

\* d[k]
dict_getitem(h, d, k) ==
    LET i == dict_lookup(h, d, k)
    IN  IF i > 0 THEN [err |-> "none", val |-> d[i].value]
        ELSE [err |-> "KeyError", val |-> ""]

(***************************************************************************)
(* The heap.  An object is its index in heap; heap[i] holds its items.     *)
(* An expression whose value is a tuple yields either a new object or an   *)
(* object that already holds exactly these items: for an immutable type    *)
(* the language leaves the choice to the interpreter (t * 1, t[:] and      *)
(* t + () hand back t itself in CPython, and every () is one object).      *)
(***************************************************************************)
Objs == 1..Len(heap)

ResultIds(h, fields, cap) ==
    {i \in 1..Len(h) : h[i] = fields}
        \cup (IF Len(h) < cap THEN {Len(h) + 1} ELSE {})

Store(h, id, fields) == IF id = Len(h) + 1 THEN Append(h, fields) ELSE h

\* a concatenation that extends its left operand in place
ConcatHeapInPlace(h, a, b, id) ==
    [Store(h, id, tuple_concat(h[a], h[b])) EXCEPT ![a] = tuple_concat(h[a], h[b])]

ConcatHeap(h, a, b, id) == Store(h, id, tuple_concat(h[a], h[b]))

RepeatHeap(h, a, n, id) == Store(h, id, tuple_repeat(h[a], n).val)

SliceHeap(h, a, start, stop, id) == Store(h, id, tuple_slice(h[a], start, stop))

\* what the last statement was given and what it delivered
\* what the last statement was given and what it delivered; obj is the
\* tuple object delivered (0 when none is)
Report(op, a, b, v, n, m, err, ival, sval, obj) ==
    [op |-> op, a |-> a, b |-> b, v |-> v, n |-> n, m |-> m,
     err |-> err, ival |-> ival, sval |-> sval, obj |-> obj]

NoReport == Report("start", 0, 0, NoVal, 0, 0, "none", 0, "", 0)

\* made[i] names the statement that created object i
Credit(h, id, op) == IF id = Len(h) + 1 THEN Append(made, op) ELSE made

\* t = (v1, ..., vk)
ConstructOp(cap, arity) ==
    \E fields \in TuplesUpTo(arity) :
      \E id \in ResultIds(heap, fields, cap) :
        /\ heap' = Store(heap, id, fields)
        /\ made' = Credit(heap, id, "Construct")
        /\ last' = Report("Construct", 0, 0, NoVal, 0, 0, "none", 0, "", id)
        /\ UNCHANGED <<bind, data>>

\* t.count(v)
CountOp ==
    \E a \in Objs, v \in Vals :
        /\ last' = Report("Count", a, 0, v, 0, 0, "none",
                          tuple_count(heap[a], v), "", 0)
        /\ UNCHANGED <<heap, made, bind, data>>

\* t.index(v)
IndexOfOp ==
    \E a \in Objs, v \in Vals :
        LET r == tuple_index(heap[a], v)
        IN  /\ last' = Report("IndexOf", a, 0, v, 0, 0, r.err, r.val, "", 0)
            /\ UNCHANGED <<heap, made, bind, data>>

\* result = a + b
ConcatOp(cap, maxlen) ==
    \E a \in Objs, b \in Objs :
        /\ Len(heap[a]) + Len(heap[b]) <= maxlen
        /\ \E id \in ResultIds(heap, tuple_concat(heap[a], heap[b]), cap) :
              /\ heap' = ConcatHeap(heap, a, b, id)
              /\ made' = Credit(heap, id, "Concat")
              /\ last' = Report("Concat", a, b, NoVal, 0, 0, "none", 0, "", id)
        /\ UNCHANGED <<bind, data>>

\* result = a * n
RepeatOp(cap, maxlen, least) ==
    \E a \in Objs, n \in least..MaxRep :
        LET r == tuple_repeat(heap[a], n)
        IN  /\ Len(r.val) <= maxlen
            /\ IF r.err = "none"
               THEN \E id \in ResultIds(heap, r.val, cap) :
                      /\ heap' = RepeatHeap(heap, a, n, id)
                      /\ made' = Credit(heap, id, "Repeat")
                      /\ last' = Report("Repeat", a, 0, NoVal, n, 0, "none", 0, "", id)
               ELSE /\ UNCHANGED <<heap, made>>
                    /\ last' = Report("Repeat", a, 0, NoVal, n, 0, r.err, 0, "", 0)
            /\ UNCHANGED <<bind, data>>

\* result = a[start:stop]
SliceOp(cap, near, far) ==
    \E a \in Objs, start \in near..far, stop \in near..far :
      \E id \in ResultIds(heap, tuple_slice(heap[a], start, stop), cap) :
        /\ heap' = SliceHeap(heap, a, start, stop, id)
        /\ made' = Credit(heap, id, "Slice")
        /\ last' = Report("Slice", a, 0, NoVal, start, stop, "none", 0, "", id)
        /\ UNCHANGED <<bind, data>>

\* x1, ..., xk = a
UnpackOp(maxk) ==
    \E a \in Objs, k \in 0..maxk :
        LET r == unpack_sequence(heap[a], k)
        IN  /\ bind' = (IF r.err = "none" THEN r.val ELSE bind)
            /\ last' = Report("Unpack", a, 0, NoVal, k, 0, r.err, 0, "", 0)
            /\ UNCHANGED <<heap, made, data>>

\* data[k] = v
DictSetOp ==
    \E k \in Objs, v \in DictVals :
        /\ Len(dict_setitem(heap, data, k, v)) <= MaxKeys
        /\ data' = dict_setitem(heap, data, k, v)
        /\ last' = Report("DictSet", k, 0, NoVal, 0, 0, "none", 0, v, 0)
        /\ UNCHANGED <<heap, made, bind>>

\* data[k]
DictGetOp ==
    \E k \in Objs :
        LET r == dict_getitem(heap, data, k)
        IN  /\ last' = Report("DictGet", k, 0, NoVal, 0, 0, r.err, 0, r.val, 0)
            /\ UNCHANGED <<heap, made, bind, data>>

(***************************************************************************)
(* Spec: one statement applied to two tuples.  The two tuples are any      *)
(* literals of arity up to MaxArity (tuple1 and tuple2 of the source); the *)
(* statement is one of the sequence operations, applied to them once.      *)
(***************************************************************************)
Init ==
    /\ \E t1 \in TuplesUpTo(MaxArity), t2 \in TuplesUpTo(MaxArity) :
          heap = <<t1, t2>>
    /\ made = <<"Construct", "Construct">>
    /\ last = NoReport
    /\ bind = <<>>
    /\ data = <<>>

Untouched == last.op = "start"

Count == Untouched /\ CountOp

IndexOf == Untouched /\ IndexOfOp

Concat == Untouched /\ ConcatOp(Len(heap) + 1, MaxArity + MaxArity)

Repeat == Untouched /\ RepeatOp(Len(heap) + 1, MaxArity * MaxRep, -1)

Slice == Untouched /\ SliceOp(Len(heap) + 1, -(MaxArity + 2), MaxArity + 2)

Unpack == Untouched /\ UnpackOp(MaxArity + 1)

Next ==
    \/ Count
    \/ IndexOf
    \/ Concat
    \/ Repeat
    \/ Slice
    \/ Unpack

Spec == Init /\ [][Next]_vars

(***************************************************************************)
(* Session: statements run one after another from an empty heap, each on   *)
(* any of the objects alive, their results staying alive.                  *)
(***************************************************************************)
SessInit ==
    /\ heap = <<>>
    /\ made = <<>>
    /\ last = NoReport
    /\ bind = <<>>
    /\ data = <<>>

SessConstruct == ConstructOp(SessObjs, SessArity)

SessCount == CountOp

SessIndexOf == IndexOfOp

SessConcat == ConcatOp(SessObjs, SessLen)

SessRepeat == RepeatOp(SessObjs, SessLen, -1)

SessSlice == SliceOp(SessObjs, -SessArity, SessArity)

SessUnpack == UnpackOp(SessLen)

SessNext ==
    \/ SessConstruct
    \/ SessCount
    \/ SessIndexOf
    \/ SessConcat
    \/ SessRepeat
    \/ SessSlice
    \/ SessUnpack

Session == SessInit /\ [][SessNext]_vars

(***************************************************************************)
(* DictSession: tuples are built and used as keys of the dictionary.       *)
(***************************************************************************)
KeyConstruct == ConstructOp(SessObjs, SessArity)

KeyConcat == ConcatOp(SessObjs, SessLen)

KeyRepeat == RepeatOp(SessObjs, SessLen, 1)

KeySlice == SliceOp(SessObjs, 0, SessArity)

DictSet == DictSetOp

DictGet == DictGetOp

DictNext ==
    \/ KeyConstruct
    \/ KeyConcat
    \/ KeyRepeat
    \/ KeySlice
    \/ DictSet
    \/ DictGet

DictSession == SessInit /\ [][DictNext]_vars

(***************************************************************************)
(* Properties of a single statement (checked under Spec).                  *)
(***************************************************************************)
Ints(ns) == [i \in 1..Len(ns) |-> PyInt(ns[i])]

\* the positions (0-based) of t holding an item equal to v
PositionsOf(t, v) == {p \in 0..(Len(t) - 1) : ValEq(t[p + 1], v)}

\* C10: Count(r, v) is the number of positions of r whose field equals v,
\* 0 when there is none or r is empty; Count((1,2,3,2,2,4), 2) = 3.
C10_CountIsNumberOfEqualFields ==
    /\ tuple_count(Ints(<<1, 2, 3, 2, 2, 4>>), PyInt(2)) = 3
    /\ last.op = "Count" =>
          /\ last.err = "none"
          /\ last.ival = Cardinality(PositionsOf(heap[last.a], last.v))

\* a count over a tuple holding the value twice, once as 1 and once as 1.0
C10_Witness ==
    /\ last.op = "Count"
    /\ last.ival = 2
    /\ heap[last.a][1] # heap[last.a][2]

\* C2: IndexOf(r, v) fails with NotFound (ValueError) when no field of r
\* equals v, and otherwise returns the smallest position whose field equals
\* v, so that 0 is only ever returned for a match at position 0;
\* IndexOf((1,2,3,4), 3) = 2.
C2_IndexOfFirstOrNotFound ==
    /\ tuple_index(Ints(<<1, 2, 3, 4>>), PyInt(3)) = [err |-> "none", val |-> 2]
    /\ last.op = "IndexOf" =>
          LET found == PositionsOf(heap[last.a], last.v)
          IN  /\ found = {} => last.err = "ValueError"
              /\ found # {} =>
                    /\ last.err = "none"
                    /\ last.ival \in found
                    /\ \A q \in found : last.ival <= q

\* a lookup that fails, on a tuple that is not empty
C2_Witness ==
    /\ last.op = "IndexOf"
    /\ last.err = "ValueError"
    /\ Len(heap[last.a]) = MaxArity

\* C3 as stated: Repeat(r, n) with a negative n fails.
C3_NegativeRepeatFails ==
    (last.op = "Repeat" /\ last.n < 0) => last.err # "none"

\* C3 as amended: Repeat(r, n) with a negative n does not fail; it delivers
\* the empty record, for any r.
C3_NegativeRepeatIsEmpty ==
    (last.op = "Repeat" /\ last.n < 0) =>
        /\ last.err = "none"
        /\ last.obj \in Objs
        /\ heap[last.obj] = <<>>

\* a negative factor applied to a tuple that is not empty
C3_Witness ==
    /\ last.op = "Repeat"
    /\ last.n < 0
    /\ Len(heap[last.a]) = MaxArity

\* w laid end to end m times
Power(w, m) == [i \in 1..(Len(w) * m) |-> w[((i - 1) % Len(w)) + 1]]

\* a and b are both repetitions of one record
CommonRoot(a, b) ==
    \E d \in 0..(Len(a) + Len(b)) :
      \E m \in 0..(Len(a) + Len(b)), n \in 0..(Len(a) + Len(b)) :
        LET w == SubSeq(a \o b, 1, d)
        IN  /\ tuple_eq(a, Power(w, m))
            /\ tuple_eq(b, Power(w, n))

\* C4 as stated: Concat(a, b) != Concat(b, a) whenever a != b.
C4_ConcatNeverCommutes ==
    (last.op = "Concat" /\ ~tuple_eq(heap[last.a], heap[last.b])) =>
        ~tuple_eq(heap[last.obj], heap[last.b] \o heap[last.a])

\* C4 as amended: for a != b, Concat(a, b) = Concat(b, a) exactly when a
\* and b are both repetitions of one common record (which includes an empty
\* a or b); in every other case Concat(a, b) != Concat(b, a).
C4_ConcatCommutesOnlyOnCommonRoot ==
    (last.op = "Concat" /\ ~tuple_eq(heap[last.a], heap[last.b])) =>
        (tuple_eq(heap[last.obj], heap[last.b] \o heap[last.a])
            <=> CommonRoot(heap[last.a], heap[last.b]))

\* two different tuples of different arities whose concatenations differ
C4_Witness ==
    /\ last.op = "Concat"
    /\ Len(heap[last.a]) > 0
    /\ Len(heap[last.b]) > Len(heap[last.a])
    /\ ~CommonRoot(heap[last.a], heap[last.b])
    /\ ~tuple_eq(heap[last.obj], heap[last.b] \o heap[last.a])

\* C5: Concat(a, b) holds a's fields in order followed by b's fields in
\* order, so its arity is arity(a) + arity(b);
\* Concat((1,2,3), (4,5,6)) = (1,2,3,4,5,6).
C5_ConcatIsAThenB ==
    /\ tuple_concat(Ints(<<1, 2, 3>>), Ints(<<4, 5, 6>>)) = Ints(<<1, 2, 3, 4, 5, 6>>)
    /\ last.op = "Concat" =>
          LET a == heap[last.a]
              b == heap[last.b]
              r == heap[last.obj]
          IN  /\ last.err = "none"
              /\ Len(r) = Len(a) + Len(b)
              /\ \A p \in 0..(Len(a) - 1) : r[p + 1] = a[p + 1]
              /\ \A p \in 0..(Len(b) - 1) : r[Len(a) + p + 1] = b[p + 1]

\* a concatenation of two full tuples that differ
C5_Witness ==
    /\ last.op = "Concat"
    /\ Len(heap[last.a]) = MaxArity
    /\ Len(heap[last.b]) = MaxArity
    /\ heap[last.a] # heap[last.b]
    /\ Len(heap[last.obj]) = MaxArity + MaxArity

\* a slice bound brought into 0..n, a negative one counted from the end
Clamp(i, n) ==
    LET j == IF i < 0 THEN i + n ELSE i
    IN  IF j < 0 THEN 0 ELSE IF j > n THEN n ELSE j

\* C6: Slice(r, start, end) never fails, whatever the integers start and
\* end; with both bounds clamped (negative ones counted from the end) the
\* result holds r's fields at positions [start, end) in order and is empty
\* when the clamped start is not below the clamped end;
\* Slice((1,2,3,4,5), 1, 4) = (2,3,4).
C6_SliceClamps ==
    /\ tuple_slice(Ints(<<1, 2, 3, 4, 5>>), 1, 4) = Ints(<<2, 3, 4>>)
    /\ last.op = "Slice" =>
          LET t == heap[last.a]
              lo == Clamp(last.n, Len(t))
              hi == Clamp(last.m, Len(t))
              r == heap[last.obj]
          IN  /\ last.err = "none"
              /\ lo < hi => r = SubSeq(t, lo + 1, hi)
              /\ lo >= hi => r = <<>>

\* a slice from a negative start to an end beyond the tuple that is not empty
C6_Witness ==
    /\ last.op = "Slice"
    /\ last.n < 0
    /\ last.m > Len(heap[last.a])
    /\ Len(heap[last.obj]) > 0
    /\ Len(heap[last.obj]) < Len(heap[last.a])

\* C9: for n >= 0, Repeat(r, n) is r's fields repeated n times in order,
\* of arity arity(r) * n; Repeat(r, 0) is the empty record.
C9_RepeatIsNCopies ==
    /\ tuple_repeat(Ints(<<1, 2, 3>>), 3).val = Ints(<<1, 2, 3, 1, 2, 3, 1, 2, 3>>)
    /\ (last.op = "Repeat" /\ last.n >= 0) =>
          LET a == heap[last.a]
              r == heap[last.obj]
          IN  /\ last.err = "none"
              /\ Len(r) = Len(a) * last.n
              /\ \A p \in 0..(Len(r) - 1) : r[p + 1] = a[(p % Len(a)) + 1]
              /\ last.n = 0 => r = <<>>

\* a full tuple of different items repeated MaxRep times
C9_Witness ==
    /\ last.op = "Repeat"
    /\ last.n = MaxRep
    /\ Len(heap[last.a]) = MaxArity
    /\ heap[last.a][1] # heap[last.a][MaxArity]
    /\ Len(heap[last.obj]) = MaxArity * MaxRep

(***************************************************************************)
(* Properties of a run of statements (checked under Session).              *)
(***************************************************************************)
Transforming == {"Concat", "Repeat", "Slice"}

\* every object alive before a step is alive after it, with the same items
ObjectsKept ==
    /\ Len(heap') >= Len(heap)
    /\ \A i \in 1..Len(heap) : heap'[i] = heap[i]

\* the items a transforming statement has to deliver, from its operands as
\* they were before the step
Expected(r) ==
    LET t == heap[r.a]
    IN  IF r.op = "Concat" THEN t \o heap[r.b]
        ELSE IF r.op = "Repeat" THEN Power(t, IF r.n < 0 THEN 0 ELSE r.n)
        ELSE IF Clamp(r.n, Len(t)) < Clamp(r.m, Len(t))
             THEN SubSeq(t, Clamp(r.n, Len(t)) + 1, Clamp(r.m, Len(t)))
             ELSE <<>>

C7_UnpackAllOrNothing ==
    [][last'.op = "Unpack" =>
          LET t == heap[last'.a]
              k == last'.n
          IN  /\ k # Len(t) =>
                    /\ last'.err = "ValueError"
                    /\ bind' = bind
              /\ k = Len(t) =>
                    /\ last'.err = "none"
                    /\ Len(bind') = k
                    /\ \A i \in 1..k : bind'[i] = t[i]]_vars

\* an unpacking into too few targets that failed, the targets of an
\* earlier unpacking still bound
C7_Witness ==
    /\ last.op = "Unpack"
    /\ last.err = "ValueError"
    /\ last.n > 0
    /\ last.n < Len(heap[last.a])
    /\ Len(bind) > 0

(***************************************************************************)
(* Properties of tuples as dictionary keys (checked under DictSession).    *)
(***************************************************************************)
SameFields(a, b) ==
    /\ Len(a) = Len(b)
    /\ \A p \in 0..(Len(a) - 1) : ValEq(a[p + 1], b[p + 1])

\* C8: two records are equal exactly when they have the same arity and
\* equal fields at every position; equal records have equal hashes,
\* however each was built; and a record equal to a key stored in the
\* dictionary retrieves that key's value.
C8_EqualRecordsHashAndLookUpAlike ==
    /\ \A i \in Objs, j \in Objs :
          /\ tuple_eq(heap[i], heap[j]) <=> SameFields(heap[i], heap[j])
          /\ SameFields(heap[i], heap[j]) => tuple_hash(heap[i]) = tuple_hash(heap[j])
    /\ \A e \in 1..Len(data) : \A f \in 1..Len(data) :
          SameFields(heap[data[e].key], heap[data[f].key]) => e = f
    /\ last.op = "DictGet" =>
          \A e \in 1..Len(data) :
              SameFields(heap[data[e].key], heap[last.a]) =>
                  /\ last.err = "none"
                  /\ last.sval = data[e].value

\* a key made by a literal, found through an equal record that + , * or a
\* slice made and that holds other values (1 where the key holds 1.0)
C8_Witness ==
    /\ last.op = "DictGet"
    /\ last.err = "none"
    /\ Len(data) = 1
    /\ data[1].key # last.a
    /\ made[data[1].key] = "Construct"
    /\ made[last.a] \in Transforming
    /\ Len(heap[last.a]) > 0
    /\ heap[data[1].key] # heap[last.a]

====
